---- MODULE Spec2Model ----
(***************************************************************************)
(* Model of chem_calcs.py: four pure functions                             *)
(*   calc_Si_conc_and_uncert, calc_PO4_conc_and_uncert, conc_to_dil,       *)
(*   poly_abs_to_conc.                                                     *)
(*                                                                         *)
(* Numbers.  A Python float is modelled as a binary fraction <<m, e>>      *)
(* standing for m / 2^e (e >= 0, m odd unless e = 0).  Addition,           *)
(* subtraction and multiplication of such values are exact.  A quotient    *)
(* or a square root that is itself a binary fraction is returned exactly;  *)
(* any other quotient or root cannot be represented and is rounded to the  *)
(* nearest multiple of 2^-Prec (ties to even), as IEEE arithmetic rounds   *)
(* to the nearest representable value.                                     *)
(*                                                                         *)
(* Python objects that are not numbers: None, and the state of a local     *)
(* variable that has not been assigned (Unbound).                          *)
(*                                                                         *)
(* A Python evaluation either yields a value or raises: an outcome is a    *)
(* record [exc, val] with exc = "none" when a value is produced.           *)
(***************************************************************************)
EXTENDS Integers, Sequences, FiniteSets, TLC

VARIABLES fn, args, pc, result

vars == <<fn, args, pc, result>>

(* ---- bounds ---- *)
\* inputs are the integers -MaxVal .. MaxVal
MaxVal == 3
\* the standard-error inputs of calc_Si_conc_and_uncert are -MaxErr .. MaxErr
MaxErr == 1
\* number of fractional bits kept when a quotient or a root is rounded
Prec == 4

(* ---- binary fractions ---- *)
RECURSIVE Pow2(_)
Pow2(n) == IF n <= 0 THEN 1 ELSE 2 * Pow2(n - 1)

RECURSIVE Norm(_, _)
Norm(m, e) ==
  IF m = 0 THEN <<0, 0>>
  ELSE IF e > 0 /\ m % 2 = 0 THEN Norm(m \div 2, e - 1)
  ELSE <<m, e>>

Num(k) == <<k, 0>>
Zero == Num(0)
None == <<0, -1>>
Unbound == <<0, -2>>
NaN == <<0, -3>>

IsNum(x) == x[2] >= 0

MaxOf(i, j) == IF i >= j THEN i ELSE j
AbsInt(i) == IF i < 0 THEN -i ELSE i

Add(x, y) ==
  LET e == MaxOf(x[2], y[2])
  IN Norm(x[1] * Pow2(e - x[2]) + y[1] * Pow2(e - y[2]), e)

Neg(x) == <<-x[1], x[2]>>
Sub(x, y) == Add(x, Neg(y))
Mul(x, y) == Norm(x[1] * y[1], x[2] + y[2])
Abs(x) == <<AbsInt(x[1]), x[2]>>

Less(x, y) == Sub(x, y)[1] < 0
Leq(x, y) == Sub(x, y)[1] <= 0

RECURSIVE Gcd(_, _)
Gcd(i, j) == IF j = 0 THEN i ELSE Gcd(j, i % j)

RECURSIVE Log2(_)
Log2(n) == IF n <= 1 THEN 0 ELSE 1 + Log2(n \div 2)

IsPow2(n) == n >= 1 /\ Pow2(Log2(n)) = n

\* nearest integer to n / d (d > 0), ties to even
RoundDiv(n, d) ==
  LET q == n \div d
      r == n % d
  IN IF 2 * r < d THEN q
     ELSE IF 2 * r > d THEN q + 1
     ELSE IF q % 2 = 0 THEN q ELSE q + 1

\* the quotient x / y of two numbers, y # 0
Quot(x, y) ==
  LET s == IF y[1] < 0 THEN -1 ELSE 1
      n0 == s * x[1] * Pow2(y[2])
      d0 == s * y[1] * Pow2(x[2])
      g == Gcd(AbsInt(n0), d0)
      n == n0 \div g
      d == d0 \div g
  IN IF IsPow2(d) THEN Norm(n, Log2(d))
     ELSE Norm(RoundDiv(n * Pow2(Prec), d), Prec)

\* floor of the square root of the integer n >= 0, by bisection
RECURSIVE IsqrtIn(_, _, _)
IsqrtIn(n, lo, hi) ==
  IF lo >= hi THEN lo
  ELSE LET mid == (lo + hi + 1) \div 2
       IN IF mid * mid <= n THEN IsqrtIn(n, mid, hi) ELSE IsqrtIn(n, lo, mid - 1)

Isqrt(n) == IsqrtIn(n, 0, IF n < 46340 THEN n ELSE 46340)

IsSquare(n) == n >= 0 /\ Isqrt(n) * Isqrt(n) = n

\* the square root of a number x >= 0
Root(x) ==
  LET m == IF x[2] % 2 = 0 THEN x[1] ELSE 2 * x[1]
      e == IF x[2] % 2 = 0 THEN x[2] ELSE x[2] + 1
  IN IF IsSquare(m) THEN Norm(Isqrt(m), e \div 2)
     ELSE LET k == 2 * Prec + 2 - e
              t == IF k >= 0 THEN m * Pow2(k) ELSE m \div Pow2(-k)
          IN Norm((Isqrt(t) + 1) \div 2, Prec)

(* ---- Python evaluation ---- *)
Ok(v) == [exc |-> "none", val |-> v]
Raise(e) == [exc |-> e, val |-> None]
Raised(r) == r.exc # "none"

Falsy_is_None(x) == x = None

\* `not x` for x a number or None
Falsy(x) == x = None \/ x = Zero

\* l + r, l - r, l * r: both operands are evaluated first, left to right
PyArith(l, r, v) ==
  IF Raised(l) THEN l
  ELSE IF Raised(r) THEN r
  ELSE IF ~IsNum(l.val) \/ ~IsNum(r.val) THEN Raise("TypeError")
  ELSE Ok(v)

PyAdd(l, r) == PyArith(l, r, Add(l.val, r.val))
PySub(l, r) == PyArith(l, r, Sub(l.val, r.val))
PyMul(l, r) == PyArith(l, r, Mul(l.val, r.val))

\* l / r
PyDiv(l, r) ==
  IF Raised(l) THEN l
  ELSE IF Raised(r) THEN r
  ELSE IF ~IsNum(l.val) \/ ~IsNum(r.val) THEN Raise("TypeError")
  ELSE IF r.val = Zero THEN Raise("ZeroDivisionError")
  ELSE Ok(Quot(l.val, r.val))

\* x ** 2
PySquare(x) == PyMul(x, x)

\* -x
PyNeg(x) ==
  IF Raised(x) THEN x
  ELSE IF ~IsNum(x.val) THEN Raise("TypeError")
  ELSE Ok(Neg(x.val))

\* abs(x)
PyAbs(x) ==
  IF Raised(x) THEN x
  ELSE IF ~IsNum(x.val) THEN Raise("TypeError")
  ELSE Ok(Abs(x.val))

MathSqrt_of_abs(x) ==
  IF Raised(x) THEN x
  ELSE IF ~IsNum(x.val) THEN Raise("TypeError")
  ELSE Ok(Root(Abs(x.val)))

\* math.sqrt(x): ValueError ("math domain error") on a negative argument
MathSqrt(x) ==
  IF Raised(x) THEN x
  ELSE IF ~IsNum(x.val) THEN Raise("TypeError")
  ELSE IF x.val[1] < 0 THEN Raise("ValueError")
  ELSE Ok(Root(x.val))

\* np.sqrt(x): nan (no exception) on a negative argument
NpSqrt(x) ==
  IF Raised(x) THEN x
  ELSE IF ~IsNum(x.val) THEN Raise("TypeError")
  ELSE IF x.val[1] < 0 THEN Ok(NaN)
  ELSE Ok(Root(x.val))

(* ---- poly_abs_to_conc ---- *)
\* b**2 - 4*a*(c - ABS)
Discriminant(a, b, c, ABS) ==
  PySub(PySquare(Ok(b)),
        PyMul(PyMul(Ok(Num(4)), Ok(a)), PySub(Ok(c), Ok(ABS))))

poly_abs_to_conc_minus_root(a, b, c, ABS) ==
  PyDiv(PySub(PyNeg(Ok(b)), MathSqrt(Discriminant(a, b, c, ABS))),
        PyMul(Ok(Num(2)), Ok(a)))

\* conc = (-b + math.sqrt(b**2 - 4*a*(c - ABS))) / (2*a)
poly_abs_to_conc(a, b, c, ABS) ==
  PyDiv(PyAdd(PyNeg(Ok(b)), MathSqrt(Discriminant(a, b, c, ABS))),
        PyMul(Ok(Num(2)), Ok(a)))

\* statement sequencing: a raised exception ends the function
Then(r, rest) == IF Raised(r) THEN r ELSE rest

(* ---- calc_Si_conc_and_uncert ---- *)
Si_conc_times_slope(avg_abs, Si_yint, Si_slope) ==
  PyMul(PySub(Ok(avg_abs), Ok(Si_yint)), Ok(Si_slope))

\* conc = (avg_abs - Si_yint) / Si_slope
Si_conc(avg_abs, Si_yint, Si_slope) ==
  PyDiv(PySub(Ok(avg_abs), Ok(Si_yint)), Ok(Si_slope))

Si_u_combined_sum(u_abs_term, u_slope_term, u_yint_term) ==
  PyAdd(PyAdd(u_abs_term, u_slope_term), u_yint_term)

\* u_combined = np.sqrt(u_abs_term**2 + u_slope_term**2 + u_yint_term**2)
Si_u_combined(u_abs_term, u_slope_term, u_yint_term) ==
  NpSqrt(PyAdd(PyAdd(PySquare(u_abs_term), PySquare(u_slope_term)),
               PySquare(u_yint_term)))

calc_Si_conc_and_uncert(avg_abs, Si_yint, Si_slope, Sxo_Si, Si_slope_err, Si_yint_err) ==
  LET conc == Si_conc(avg_abs, Si_yint, Si_slope)
      u_abs_term == PyMul(PyDiv(Ok(Num(1)), Ok(Si_slope)), Ok(Sxo_Si))
      u_slope_term ==
        PyMul(PyDiv(PySub(Ok(avg_abs), Ok(Si_yint)), PySquare(Ok(Si_slope))),
              Ok(Si_slope_err))
      u_yint_term == PyMul(PyDiv(Ok(Num(1)), Ok(Si_slope)), Ok(Si_yint_err))
      u_combined == Si_u_combined(u_abs_term, u_slope_term, u_yint_term)
  IN Then(conc, Then(u_abs_term, Then(u_slope_term, Then(u_yint_term,
       Then(u_combined, Ok(<<conc.val, u_combined.val>>))))))

(* ---- calc_PO4_conc_and_uncert ---- *)
PO4_abs_minus_unshifted(avg_abs, Sxo_PO4) == Ok(avg_abs)

\* avg_abs - Sxo_PO4
PO4_abs_minus(avg_abs, Sxo_PO4) == PySub(Ok(avg_abs), Ok(Sxo_PO4))

PO4_u_sample_sum(conc_plus, conc_minus) ==
  PyDiv(PyAbs(PyAdd(conc_plus, conc_minus)), Ok(Num(2)))

\* u_sample = abs(conc_plus - conc_minus) / 2
PO4_u_sample(conc_plus, conc_minus) ==
  PyDiv(PyAbs(PySub(conc_plus, conc_minus)), Ok(Num(2)))

calc_PO4_conc_and_uncert(avg_abs, a, b, c, Sxo_PO4) ==
  LET conc == poly_abs_to_conc(a, b, c, avg_abs)
      plus == PyAdd(Ok(avg_abs), Ok(Sxo_PO4))
      conc_plus == Then(plus, poly_abs_to_conc(a, b, c, plus.val))
      minus == PO4_abs_minus(avg_abs, Sxo_PO4)
      conc_minus == Then(minus, poly_abs_to_conc(a, b, c, minus.val))
      u_sample == PO4_u_sample(conc_plus, conc_minus)
      u_combined == NpSqrt(PyAdd(PySquare(Ok(Sxo_PO4)), PySquare(u_sample)))
  IN Then(conc, Then(conc_plus, Then(conc_minus, Then(u_sample,
       Then(u_combined, Ok(<<conc.val, u_combined.val>>))))))

(* ---- conc_to_dil ---- *)
\* the four right-hand sides
solve_c1(c1, v1, c2, v2) == PyDiv(PyMul(Ok(c2), Ok(v2)), Ok(v1))
solve_c2(c1, v1, c2, v2) == PyDiv(PyMul(Ok(c1), Ok(v1)), Ok(v2))
solve_v1_swapped(c1, v1, c2, v2) == PyDiv(PyMul(Ok(c1), Ok(v2)), Ok(c2))
solve_v1(c1, v1, c2, v2) == PyDiv(PyMul(Ok(c2), Ok(v2)), Ok(c1))
solve_v2(c1, v1, c2, v2) == PyDiv(PyMul(Ok(c1), Ok(v1)), Ok(c2))

\* `if cond: output = rhs`, run with the local `output` as left by s
IfAssign(s, cond, rhs) ==
  IF Raised(s) THEN s
  ELSE IF ~cond THEN s
  ELSE rhs

ReturnOutput_default_None(s) ==
  IF Raised(s) THEN s
  ELSE IF s.val = Unbound THEN Ok(None)
  ELSE s

\* `return (output)`: reading a local that was never assigned raises
ReturnOutput(s) ==
  IF Raised(s) THEN s
  ELSE IF s.val = Unbound THEN Raise("UnboundLocalError")
  ELSE s

\* the branches as an if / elif chain: only the first match runs
conc_to_dil_elif(c1, v1, c2, v2) ==
  ReturnOutput(
    IF Falsy(c1) THEN solve_c1(c1, v1, c2, v2)
    ELSE IF Falsy(c2) THEN solve_c2(c1, v1, c2, v2)
    ELSE IF Falsy(v1) THEN solve_v1(c1, v1, c2, v2)
    ELSE IF Falsy(v2) THEN solve_v2(c1, v1, c2, v2)
    ELSE Ok(Unbound))

conc_to_dil(c1, v1, c2, v2) ==
  LET s0 == Ok(Unbound)
      s1 == IfAssign(s0, Falsy(c1), solve_c1(c1, v1, c2, v2))
      s2 == IfAssign(s1, Falsy(c2), solve_c2(c1, v1, c2, v2))
      s3 == IfAssign(s2, Falsy(v1), solve_v1(c1, v1, c2, v2))
      s4 == IfAssign(s3, Falsy(v2), solve_v2(c1, v1, c2, v2))
  IN ReturnOutput(s4)

(* ---- inputs ---- *)
Vals == {Num(k) : k \in -MaxVal .. MaxVal}
OptVals == Vals \cup {None}
ErrVals == {Num(k) : k \in -MaxErr .. MaxErr}
SiArgs == {<<x[1], x[2], x[3], y[1], y[2], y[3]>> :
             x \in [1 .. 3 -> Vals], y \in [1 .. 3 -> ErrVals]}

Init ==
  /\ pc = "ready"
  /\ result = Ok(None)
  /\ \/ fn = "calc_Si_conc_and_uncert" /\ args \in SiArgs
     \/ fn = "calc_PO4_conc_and_uncert" /\ args \in [1 .. 5 -> Vals]
     \/ fn = "conc_to_dil" /\ args \in [1 .. 4 -> OptVals]
     \/ fn = "poly_abs_to_conc" /\ args \in [1 .. 4 -> Vals]

Finish(r) ==
  /\ result' = r
  /\ pc' = IF Raised(r) THEN "raised" ELSE "returned"
  /\ UNCHANGED <<fn, args>>

Call_calc_Si_conc_and_uncert ==
  /\ pc = "ready"
  /\ fn = "calc_Si_conc_and_uncert"
  /\ Finish(calc_Si_conc_and_uncert(args[1], args[2], args[3], args[4], args[5], args[6]))

Call_calc_PO4_conc_and_uncert ==
  /\ pc = "ready"
  /\ fn = "calc_PO4_conc_and_uncert"
  /\ Finish(calc_PO4_conc_and_uncert(args[1], args[2], args[3], args[4], args[5]))

Call_conc_to_dil ==
  /\ pc = "ready"
  /\ fn = "conc_to_dil"
  /\ Finish(conc_to_dil(args[1], args[2], args[3], args[4]))

Call_poly_abs_to_conc ==
  /\ pc = "ready"
  /\ fn = "poly_abs_to_conc"
  /\ Finish(poly_abs_to_conc(args[1], args[2], args[3], args[4]))

Next ==
  \/ Call_calc_Si_conc_and_uncert
  \/ Call_calc_PO4_conc_and_uncert
  \/ Call_conc_to_dil
  \/ Call_poly_abs_to_conc

Spec == Init /\ [][Next]_vars

(* ======================================================================= *)
(* Properties                                                              *)
(* ======================================================================= *)
Done == pc # "ready"
Returned == pc = "returned"

NonZeroNum(x) == IsNum(x) /\ x # Zero
NonNeg(x) == IsNum(x) /\ x[1] >= 0

\* half a unit of the rounding grid, 2^-(Prec+1)
HalfUlp == Norm(1, Prec + 1)

\* b^2 - 4*a*(c - ABS) in exact arithmetic
DiscOf(a, b, c, ABS) == Sub(Mul(b, b), Mul(Mul(Num(4), a), Sub(c, ABS)))

(* ---- conc_to_dil ---- *)
IsDil == fn = "conc_to_dil"

\* argument positions in the order the code tests them: c1, c2, v1, v2
CheckOrder == <<1, 3, 2, 4>>

DilFalsy == {i \in 1 .. 4 : Falsy(args[i])}

BranchOf(i, w) ==
  CASE i = 1 -> solve_c1(w[1], w[2], w[3], w[4])
    [] i = 3 -> solve_c2(w[1], w[2], w[3], w[4])
    [] i = 2 -> solve_v1(w[1], w[2], w[3], w[4])
    [] i = 4 -> solve_v2(w[1], w[2], w[3], w[4])

FirstFalsy ==
  CheckOrder[CHOOSE k \in 1 .. 4 :
    /\ Falsy(args[CheckOrder[k]])
    /\ \A j \in 1 .. 4 : Falsy(args[CheckOrder[j]]) => k <= j]

LastFalsy ==
  CheckOrder[CHOOSE k \in 1 .. 4 :
    /\ Falsy(args[CheckOrder[k]])
    /\ \A j \in 1 .. 4 : Falsy(args[CheckOrder[j]]) => j <= k]

\* C1 as stated: with more than one falsy input conc_to_dil solves only for
\* the first falsy input in checking order; the outcome of the call is the
\* outcome of that first matching branch and later branches do not change it.
C1_FirstMatchOnly ==
  (IsDil /\ Done /\ Cardinality(DilFalsy) >= 2)
    => result = BranchOf(FirstFalsy, args)

\* C1 amended: with more than one falsy input conc_to_dil runs the branch of
\* every falsy input, in checking order.  The call returns exactly when every
\* one of these branches evaluates; it then returns the value of the last
\* matching branch, every falsy input is a zero, and the value is 0 (which is
\* also what the first matching branch computed).  Otherwise it raises
\* TypeError or ZeroDivisionError.
C1_EveryMatchRuns ==
  (IsDil /\ Done /\ Cardinality(DilFalsy) >= 2)
    => /\ Returned <=> \A i \in DilFalsy : ~Raised(BranchOf(i, args))
       /\ Returned =>
            /\ result = BranchOf(LastFalsy, args)
            /\ result = BranchOf(FirstFalsy, args)
            /\ result.val = Zero
            /\ \A i \in DilFalsy : args[i] = Zero
       /\ ~Returned => result.exc \in {"TypeError", "ZeroDivisionError"}

\* a call with two falsy inputs that returned
C1_Witness == IsDil /\ Returned /\ Cardinality(DilFalsy) >= 2

\* exactly one input omitted, the other three supplied and non-zero
OneOmitted ==
  /\ IsDil
  /\ Cardinality({i \in 1 .. 4 : args[i] = None}) = 1
  /\ \A i \in 1 .. 4 : args[i] # None => NonZeroNum(args[i])

Omitted == CHOOSE i \in 1 .. 4 : args[i] = None

\* the four quantities with the returned value in the omitted place
Solved == [i \in 1 .. 4 |-> IF args[i] = None THEN result.val ELSE args[i]]

\* c1*v1 - c2*v2 after substitution
IdentityGap == Sub(Mul(Solved[1], Solved[2]), Mul(Solved[3], Solved[4]))

\* the factor that multiplies the omitted quantity in the identity
Cofactor == args[CASE Omitted = 1 -> 2 [] Omitted = 2 -> 1
                   [] Omitted = 3 -> 4 [] Omitted = 4 -> 3]

\* C2 as stated: with exactly one input omitted and the others non-zero, the
\* returned value put in the omitted place satisfies c1*v1 == c2*v2.
C2_RoundTripExact ==
  (OneOmitted /\ Done) => (Returned /\ IdentityGap = Zero)

\* C2 amended: with exactly one input omitted and the others non-zero, the
\* call returns and the returned value satisfies c1*v1 = c2*v2 up to the
\* rounding of the division: |c1*v1 - c2*v2| is at most half a unit in the
\* last place times the cofactor of the solved-for quantity, and it is 0
\* when that cofactor is a power of two (the quotient is then exact).
C2_RoundTripWithinRounding ==
  (OneOmitted /\ Done)
    => /\ Returned
       /\ Leq(Abs(IdentityGap), Mul(HalfUlp, Abs(Cofactor)))
       /\ IsPow2(AbsInt(Cofactor[1])) => IdentityGap = Zero

\* v1 omitted (the documented use) and the quotient c2*v2/c1 was rounded
C2_Witness ==
  OneOmitted /\ Returned /\ args[2] = None /\ IdentityGap # Zero

\* C8 as stated: a zero argument gives the same outcome as an omitted one,
\* for every position and every choice of the other three arguments.
C8_ZeroSameAsNone ==
  (IsDil /\ Done)
    => \A i \in 1 .. 4 :
         args[i] = Zero =>
           LET w == [args EXCEPT ![i] = None]
           IN result = conc_to_dil(w[1], w[2], w[3], w[4])

\* C8 amended: a zero argument gives the same outcome as an omitted one when
\* the other three arguments are supplied and non-zero; the call then returns
\* the value solved for that argument.
C8_ZeroSameAsNoneOthersNonZero ==
  (IsDil /\ Done)
    => \A i \in 1 .. 4 :
         (args[i] = Zero /\ \A j \in (1 .. 4) \ {i} : NonZeroNum(args[j])) =>
           LET w == [args EXCEPT ![i] = None]
           IN /\ Returned
              /\ result = conc_to_dil(w[1], w[2], w[3], w[4])
              /\ result = BranchOf(i, args)

\* c1 = 0, the others non-zero, and the call returned
C8_Witness ==
  /\ IsDil /\ Returned /\ args[1] = Zero
  /\ \A j \in 2 .. 4 : NonZeroNum(args[j])

\* C10: with all four inputs supplied and non-zero no branch runs and the
\* call ends in an error (the unassigned local is read); no value is returned.
C10_AllSuppliedRaises ==
  (IsDil /\ Done /\ \A i \in 1 .. 4 : NonZeroNum(args[i]))
    => pc = "raised" /\ result = Raise("UnboundLocalError")

\* all four supplied and non-zero, and the call has ended
C10_Witness ==
  IsDil /\ Done /\ \A i \in 1 .. 4 : NonZeroNum(args[i])

(* ---- poly_abs_to_conc ---- *)
IsPoly == fn = "poly_abs_to_conc"

\* the discriminant of a poly_abs_to_conc call (a, b, c, ABS)
PolyDisc == DiscOf(args[1], args[2], args[3], args[4])

\* a*conc^2 + b*conc + (c - ABS) at the returned conc
PolyResidual ==
  Add(Add(Mul(args[1], Mul(result.val, result.val)), Mul(args[2], result.val)),
      Sub(args[3], args[4]))

\* 2*a*conc + b: equal to +sqrt(discriminant) at the '+' root
PolySlope == Add(Mul(Mul(Num(2), args[1]), result.val), args[2])

\* rounding error that 2*a*conc + b can carry: half a unit from the square
\* root, and half a unit from the division scaled by 2*|a|
PolyErr == Mul(HalfUlp, Add(Mul(Num(2), Abs(args[1])), Num(1)))

PolyDefined == IsPoly /\ args[1] # Zero /\ NonNeg(PolyDisc)

\* C3 as stated: for a # 0 and a non-negative discriminant the call returns
\* the '+' root and the value satisfies a*conc^2 + b*conc + (c - ABS) == 0.
C3_RootExact ==
  (PolyDefined /\ Done) => (Returned /\ PolyResidual = Zero)

\* C3 amended: for a # 0 and a non-negative discriminant the call returns
\* the '+' branch value (2*a*conc + b is not below 0 by more than the
\* rounding of the division), and conc satisfies the quadratic up to the
\* rounding of the square root and of the division:
\*   |4*a*(a*conc^2 + b*conc + (c - ABS))| <= err * (2*|2*a*conc + b| + err).
C3_RootWithinRounding ==
  (PolyDefined /\ Done)
    => /\ Returned
       /\ Leq(Neg(Mul(HalfUlp, Mul(Num(2), Abs(args[1])))), PolySlope)
       /\ Leq(Abs(Mul(Mul(Num(4), args[1]), PolyResidual)),
              Mul(PolyErr, Add(Mul(Num(2), Abs(PolySlope)), PolyErr)))

\* a returned root whose square root had to be rounded
C3_Witness == PolyDefined /\ Returned /\ PolyResidual # Zero

\* C4: with a negative discriminant poly_abs_to_conc raises the domain error
\* (ValueError) and returns no value.
C4_NegativeDiscriminantRaises ==
  (IsPoly /\ Done /\ PolyDisc[1] < 0)
    => pc = "raised" /\ result = Raise("ValueError")

\* a call with a negative discriminant has ended
C4_Witness == IsPoly /\ Done /\ PolyDisc[1] < 0

(* ---- calc_Si_conc_and_uncert ---- *)
IsSi == fn = "calc_Si_conc_and_uncert"

\* C5: with a non-zero slope the call returns conc = (A - b0) / m whatever
\* the three error inputs are, and with all three error inputs 0 the
\* combined uncertainty is 0.
C5_LinearConc ==
  (IsSi /\ Done /\ args[3] # Zero)
    => /\ Returned
       /\ result.val[1] = Quot(Sub(args[1], args[2]), args[3])
       /\ (args[4] = Zero /\ args[5] = Zero /\ args[6] = Zero)
            => result.val[2] = Zero

\* a returned call with zero error inputs and a non-zero concentration
C5_Witness ==
  /\ IsSi /\ Returned /\ result.val[1] # Zero
  /\ args[4] = Zero /\ args[5] = Zero /\ args[6] = Zero

(* ---- calc_PO4_conc_and_uncert ---- *)
IsPO4 == fn = "calc_PO4_conc_and_uncert"

\* C6: whenever calc_Si_conc_and_uncert or calc_PO4_conc_and_uncert returns,
\* the combined uncertainty is a number and is not negative.
C6_UncertaintyNonNegative ==
  ((IsSi \/ IsPO4) /\ Returned) => NonNeg(result.val[2])

\* negative slope, negative error inputs, A < b0, and a positive uncertainty
C6_Witness ==
  /\ IsSi /\ Returned
  /\ Less(args[3], Zero) /\ Less(args[4], Zero) /\ Less(args[5], Zero)
  /\ Less(args[6], Zero) /\ Less(args[1], args[2])
  /\ Less(Zero, result.val[2])

\* C7: with blank scatter 0 a returning calc_PO4_conc_and_uncert call gives
\* combined uncertainty exactly 0 and conc = poly_abs_to_conc(a, b, c, A).
C7_ZeroScatter ==
  (IsPO4 /\ Returned /\ args[5] = Zero)
    => /\ result.val[2] = Zero
       /\ Ok(result.val[1]) = poly_abs_to_conc(args[2], args[3], args[4], args[1])

\* a returned call with zero scatter and a non-zero concentration
C7_Witness == IsPO4 /\ Returned /\ args[5] = Zero /\ result.val[1] # Zero

\* the discriminant of a calc_PO4_conc_and_uncert call at absorbance x
PO4Disc(x) == DiscOf(args[2], args[3], args[4], x)

\* C9: calc_PO4_conc_and_uncert raises the domain error, and returns no
\* pair, whenever the discriminant is negative at A, at A + s_blank or at
\* A - s_blank -- also when it is non-negative at A itself.
C9_AnyNegativeDiscriminantRaises ==
  (IsPO4 /\ Done /\
     \/ PO4Disc(args[1])[1] < 0
     \/ PO4Disc(Add(args[1], args[5]))[1] < 0
     \/ PO4Disc(Sub(args[1], args[5]))[1] < 0)
    => pc = "raised" /\ result = Raise("ValueError")

\* the concentration at A is defined, the one at A - s_blank is not
C9_Witness ==
  /\ IsPO4 /\ Done /\ args[2] # Zero
  /\ PO4Disc(args[1])[1] >= 0
  /\ PO4Disc(Add(args[1], args[5]))[1] >= 0
  /\ PO4Disc(Sub(args[1], args[5]))[1] < 0

====
